---------------------------- MODULE Spec2Model ----------------------------
(***************************************************************************)
(* A model of the spike-simulator notebooks.                               *)
(*                                                                         *)
(*   src/unnamed/part_000  synapses (heaviside, g_syn, I_AMPA, I_GABA),    *)
(*                         the synaptic integration loop, Nernst and GHK   *)
(*   src/neuron.ipynb      the leak loop and the injected-current loop     *)
(*                                                                         *)
(* The state is the notebook kernel's globals (V_t, I_leak, I_syn, dV, t,  *)
(* i, _v, ...) and the position of the running cell in its for loop; one   *)
(* action per statement of a loop body.                                    *)
(*                                                                         *)
(* Numbers.  Python floats are modelled in decimal fixed point:            *)
(*   voltages (mV), currents (nA)    integer multiples of 1/VScale         *)
(*   times (ms)                      integer multiples of 1/TScale         *)
(*   exponents                       integer multiples of 1/XScale         *)
(*   e**x and conductances (nS)      integer multiples of 1/PScale         *)
(* Sums and differences are exact; every product and quotient is rounded   *)
(* to the grid (half away from zero), as a float operation rounds to the   *)
(* nearest float.  The grid is coarser than a double's, so values below    *)
(* 1/PScale vanish earlier than doubles underflow; the float range is      *)
(* kept: e**x raises OverflowError exactly where the double overflows.     *)
(* Python exceptions (ZeroDivisionError, OverflowError) are outcomes of    *)
(* the operators: a result is a record [err, val].                         *)
(***************************************************************************)
EXTENDS Integers, Sequences, FiniteSets, TLC

-----------------------------------------------------------------------------
(* Fixed-point grid *)

VScale == 1000 * 1000        \* units per mV and per nA
TScale == 10 * 10            \* units per ms
XScale == 100 * 100          \* units per 1 of an exponent
PScale == 1000 * 1000        \* units per 1 of e**x, and per nS
Limb   == 10 * 100           \* base of the long multiplication

Abs(x) == IF x < 0 THEN -x ELSE x
Sgn(x) == IF x < 0 THEN -1 ELSE IF x > 0 THEN 1 ELSE 0

\* n / d rounded to the nearest integer (halves away from zero), n >= 0, d > 0
RoundQuot(n, d) == IF 2 * (n % d) >= d THEN (n \div d) + 1 ELSE n \div d

\* Python evaluates the operands of an expression and the arguments of a call
\* once.  CHOOSE r \in {e(x) : x \in {a}} : TRUE is e(a) with a evaluated
\* once, whatever the number of times e uses it.

\* a / b rounded to the nearest integer, b # 0
RDiv(a, b) ==
    CHOOSE r \in {Sgn(x) * Sgn(y) * RoundQuot(Abs(x), Abs(y)) :
                    x \in {a}, y \in {b}} : TRUE

\* one step of a long division by c: qr is <<quotient, remainder>> so far,
\* col the next column of the dividend in base Limb
DivStep(qr, col, c) ==
    CHOOSE r \in {<<x[1] * Limb + ((x[2] * Limb + col) \div c),
                     (x[2] * Limb + col) % c>> : x \in {qr}} : TRUE

RoundQR(qr, c) == IF 2 * qr[2] >= c THEN qr[1] + 1 ELSE qr[1]

\* the product of n2 n1 n0 and m2 m1 m0 (digits in base Limb), divided by c
MulDivLimbs(n0, n1, n2, m0, m1, m2, c) ==
    RoundQR(DivStep(DivStep(DivStep(DivStep(DivStep(<<0, 0>>,
                n2 * m2, c),
                n1 * m2 + n2 * m1, c),
                n0 * m2 + n1 * m1 + n2 * m0, c),
                n0 * m1 + n1 * m0, c),
                n0 * m0, c), c)

MulDivAbs(n, m, c) ==
    MulDivLimbs(n % Limb, (n \div Limb) % Limb, n \div (Limb * Limb),
                m % Limb, (m \div Limb) % Limb, m \div (Limb * Limb), c)

\* a * b / c rounded to the nearest integer, 0 < c <= 2 * 10^6, without
\* leaving 32 bits: long multiplication in base Limb, then long division.
MulDiv(a, b, c) ==
    CHOOSE r \in {Sgn(x) * Sgn(y) * MulDivAbs(Abs(x), Abs(y), c) :
                    x \in {a}, y \in {b}} : TRUE

\* results of a call: a value, or the exception it raised
Ok(v)    == [err |-> "none", val |-> v]
Raise(x) == [err |-> x, val |-> 0]

-----------------------------------------------------------------------------
(* e ** x, the float power of the notebook's constant e = 2.71828 *)

EDigits == 271828            \* e = 2.71828 = EDigits / EScale
EScale  == 100 * 1000
LnE     == 999999            \* ln(2.71828) = 0.999999..., in 1/PScale
\* the first exponent, in 1/XScale, at which 2.71828 ** x leaves the double
\* range: 2.71828 ** 709.7831 = 1.7975e308, 2.71828 ** 709.7832 raises
OverflowAt == 7097832
\* the largest exponent, in 1/XScale, whose power the grid can hold
PowMaxArg  == 70000
\* below -PowMinArg, in 1/XScale, the power is less than half a grid unit
PowMinArg  == 150000
SeriesLen  == 12             \* terms of the series for the fractional part

RECURSIVE EPow(_)
\* 2.71828 ** n for a whole n >= 0, in 1/PScale
EPow(n) == IF n = 0 THEN PScale ELSE MulDiv(EPow(n - 1), EDigits, EScale)

RECURSIVE EInvPow(_)
\* 2.71828 ** (-n) for a whole n >= 0, in 1/PScale
EInvPow(n) == IF n = 0 THEN PScale ELSE MulDiv(EInvPow(n - 1), EScale, EDigits)

RECURSIVE Series(_, _, _, _, _)
RECURSIVE SeriesAdd(_, _, _, _, _)
\* the sum of the series of exp(sg * u) from its term k on: term is the term
\* before it, u^(k-1)/(k-1)!, and acc the sum so far
Series(k, term, acc, u, sg) ==
    IF k > SeriesLen \/ term = 0 THEN acc
    ELSE SeriesAdd(k, RDiv(MulDiv(term, u, PScale), k), acc, u, sg)

SeriesAdd(k, nxt, acc, u, sg) ==
    CHOOSE r \in {Series(k + 1, x, y + (IF sg < 0 /\ k % 2 = 1 THEN -x ELSE x), u, sg) :
                    x \in {nxt}, y \in {acc}} : TRUE

\* 2.71828 ** (sg * f / XScale) for 0 <= f < XScale, in 1/PScale
EFrac(f, sg) ==
    CHOOSE r \in {Series(1, PScale, PScale, u, sg) :
                    u \in {MulDiv(f * (PScale \div XScale), LnE, PScale)}} : TRUE

\* 2.71828 ** (sg * (n + f / XScale)), in 1/PScale
PowParts(n, f, sg) ==
    IF f = 0 THEN (IF sg < 0 THEN EInvPow(n) ELSE EPow(n))
    ELSE MulDiv(IF sg < 0 THEN EInvPow(n) ELSE EPow(n), EFrac(f, sg), PScale)

\* e ** x for x in 1/XScale: [st, v], st one of "ok", "big" (a finite double
\* beyond the grid) and "OverflowError"
PowOf(x) ==
    IF x >= OverflowAt THEN [st |-> "OverflowError", v |-> 0]
    ELSE IF x > PowMaxArg THEN [st |-> "big", v |-> 0]
    ELSE IF x < -PowMinArg THEN [st |-> "ok", v |-> 0]
    ELSE [st |-> "ok", v |-> PowParts(Abs(x) \div XScale, Abs(x) % XScale, Sgn(x))]

Pow(x) == CHOOSE r \in {PowOf(y) : y \in {x}} : TRUE

-----------------------------------------------------------------------------
(* Synapses: src/unnamed/part_000, cells a7475248, addee5d6, c5509c64 *)

\* a gate that is closed at the spike instant
heavisideStrict(x) == x > 0

\* def heaviside(x): return x >= 0
heaviside(x) == x >= 0

\* float(b) of a bool
Float(b) == IF b THEN 1 ELSE 0

\* the decay taken from the spike to itself: no decay at all
ExponentAtSpike(t, s, tau) ==
    IF tau = 0 THEN Raise("ZeroDivisionError")
    ELSE Ok(RDiv(-(s - s) * (XScale \div TScale), tau))

\* -(t - s) / tau, in 1/XScale; t and s in 1/TScale, tau a whole number
Exponent(t, s, tau) ==
    IF tau = 0 THEN Raise("ZeroDivisionError")
    ELSE Ok(RDiv(-(t - s) * (XScale \div TScale), tau))

\* g_max * p * h, p the power and h the gate
Gated(g_max, p, h) ==
    IF p.st = "OverflowError" THEN Raise("OverflowError")
    ELSE IF h = 0 \/ g_max = 0 THEN Ok(0)          \* a finite float * 0.0
    ELSE IF p.st = "big" THEN Raise("beyond the grid")
    ELSE Ok(g_max * p.v * h)

\* g_max * e**(-(t-spks[i])/tau) * float(heaviside(t-spks[i])), in 1/PScale.
\* The power is evaluated whether or not the gate is open.
Term(t, s, g_max, tau) ==
    IF tau = 0 THEN Raise("ZeroDivisionError")
    ELSE CHOOSE r \in {Gated(g_max, p, Float(heaviside(t - s))) :
                         p \in {Pow(Exponent(t, s, tau).val)}} : TRUE

RECURSIVE g_syn_from(_, _, _, _, _, _)
RECURSIVE g_syn_add(_, _, _, _, _, _, _)
\* the for loop of g_syn from index k on, total being the sum so far
g_syn_from(k, total, t, spks, g_max, tau) ==
    IF k > Len(spks) THEN Ok(total)
    ELSE CHOOSE r \in {g_syn_add(x, k, y, t, spks, g_max, tau) :
                         x \in {Term(t, spks[k], g_max, tau)}, y \in {total}} : TRUE

\* total += term, unless computing the term raised
g_syn_add(term, k, total, t, spks, g_max, tau) ==
    IF term.err # "none" THEN term
    ELSE g_syn_from(k + 1, total + term.val, t, spks, g_max, tau)

\* total initialised to the peak conductance instead of 0.0
g_synSeeded(t, spks, g_max, tau) == g_syn_from(1, g_max * PScale, t, spks, g_max, tau)

\* def g_syn(t, spks, g_max=50, tau=5), the conductance in 1/PScale nS
g_syn(t, spks, g_max, tau) == g_syn_from(1, 0, t, spks, g_max, tau)

MilliDen == 1000             \* the factor 1e-3 = 1 / MilliDen

\* 1e-3 * g * (V_t - E), in 1/VScale nA, g the result of g_syn
Scaled(g, V, E) ==
    IF g.err # "none" THEN g ELSE Ok(MulDiv(RDiv(g.val, MilliDen), V - E, VScale))

\* 1e-3 * g_syn(t, spks, g_max, tau) * (V_t - E), in 1/VScale nA
SynCurrent(t, V, spks, g_max, tau, E) ==
    CHOOSE r \in {Scaled(g, V, E) : g \in {g_syn(t, spks, g_max, tau)}} : TRUE

GMaxDefault == 50            \* g_max=50 nS
TauAMPA     == 4             \* I_AMPA: tau=4
EAMPA       == 0             \* I_AMPA: E=0
TauGABA     == 8             \* I_GABA: tau=8
EGABA       == -70           \* I_GABA: E=-70

\* def I_AMPA(t, V_t, spks, g_max=50, tau=4, E=0), E in mV
I_AMPA(t, V, spks, g_max, tau, E) == SynCurrent(t, V, spks, g_max, tau, E * VScale)

\* the driving force taken with the wrong sign, E - V_t
I_GABAReversed(t, V, spks, g_max, tau, E) ==
    SynCurrent(t, -V, spks, g_max, tau, -E * VScale)

\* def I_GABA(t, V_t, spks, g_max=50, tau=8, E=-70), E in mV
I_GABA(t, V, spks, g_max, tau, E) == SynCurrent(t, V, spks, g_max, tau, E * VScale)

-----------------------------------------------------------------------------
(* Reversal potentials: src/unnamed/part_000, cells 14894b37, d7283247,    *)
(* bb7e33b3, 3c314fcb.  Concentrations are whole mM, permeabilities whole   *)
(* multiples of 1/PermScale, potentials multiples of 1/VScale mV.           *)

PermScale == 10 * 10         \* units per 1 of a permeability
RTFScale  == 10000 * 10000   \* units per 1 of RTF

RGas     == 8314000          \* R = 8.314, in 1/PScale
Faraday  == 96485            \* F = 96485
TKelvin  == 31025            \* T = 310.25, in 1/TScale

\* R*T/F, in 1/RTFScale, for a T in 1/TScale
RTFExpr(R, Tk, F) == MulDiv(R, Tk, F)

\* z = valence = {'K': 1, 'Na': 1, 'Cl': -1,'HCO3': -1}
ValenceRef == [K |-> 1, Na |-> 1, Cl |-> -1, HCO3 |-> -1]

\* C = concentrations = {'K': {'i':140,'o': 5}, ...}, whole mM
ConcentrationsRef ==
    [K    |-> [i |-> 140, o |-> 5],
     Na   |-> [i |-> 15,  o |-> 125],
     Cl   |-> [i |-> 5,   o |-> 135],
     HCO3 |-> [i |-> 10,  o |-> 25]]

\* the globals the functions below read when they are called
VARIABLES
    RTF,             \* RTF, in 1/RTFScale      (cell 14894b37)
    valence,         \* the valence dict        (cells 14894b37, d0f28cab)
    concentrations   \* the concentrations dict (cell 26dd164d)

Ln2       == 693147          \* ln 2, in 1/PScale
AtanhLen  == 15              \* highest power of the series for the logarithm

RECURSIVE LnReduce(_, _, _)
\* n/d = 2^k * (n'/d') with 1/2 < n'/d' <= 1: <<n', d', k>>, for n, d > 0
LnReduce(n, d, k) ==
    IF n > d THEN LnReduce(n, 2 * d, k + 1)
    ELSE IF 2 * n <= d THEN LnReduce(2 * n, d, k - 1)
    ELSE <<n, d, k>>

RECURSIVE AtanhFrom(_, _, _, _)
\* y^m/m + y^(m+2)/(m+2) + ... added to acc; pw is y^m and y2 is y^2
AtanhFrom(m, pw, acc, y2) ==
    IF m > AtanhLen \/ pw = 0 THEN acc
    ELSE CHOOSE r \in {AtanhFrom(m + 2, p2, a2, y2) :
                         p2 \in {MulDiv(pw, y2, PScale)},
                         a2 \in {acc + RDiv(pw, m)}} : TRUE

\* ln(r[1]/r[2]) + r[3] * ln 2, by ln x = 2 atanh((x - 1)/(x + 1))
LnOfReduced(r) ==
    CHOOSE v \in {r[3] * Ln2 + 2 * AtanhFrom(1, y, 0, MulDiv(y, y, PScale)) :
                    y \in {MulDiv(r[1] - r[2], PScale, r[1] + r[2])}} : TRUE

\* the natural logarithm of n/d, n and d > 0, in 1/PScale
Ln(n, d) == CHOOSE v \in {LnOfReduced(r) : r \in {LnReduce(n, d, 0)}} : TRUE

\* a float result that is no number: "-inf", "inf" or "nan"
NonFinite(x) == [err |-> "none", val |-> 0, float |-> x]
IsNonFinite(r) == "float" \in DOMAIN r

\* np.log(n/d) of Python numbers n and d: the division raises for d = 0;
\* the logarithm of 0 is -inf and that of a negative number nan, each with
\* a RuntimeWarning and no exception
LogRatio(n, d) ==
    IF d = 0 THEN Raise("ZeroDivisionError")
    ELSE IF n = 0 THEN NonFinite("-inf")
    ELSE IF Sgn(n) # Sgn(d) THEN NonFinite("nan")
    ELSE Ok(Ln(Abs(n), Abs(d)))

\* x * lg * 1000 in 1/VScale mV, x in 1/RTFScale and lg a result of LogRatio
TimesLog(x, lg) ==
    IF lg.err # "none" THEN lg
    ELSE IF IsNonFinite(lg) THEN
        (IF lg.float = "nan" \/ x = 0 THEN NonFinite("nan")
         ELSE IF x > 0 THEN lg ELSE NonFinite("inf"))
    ELSE Ok(MulDiv(x, lg.val, (RTFScale \div VScale) * 1000))

\* def nernst_ind(C_out, C_in, sign):
\*     return RTF/sign * np.log(C_out/C_in)*1000
nernst_ind(C_out, C_in, sign) ==
    IF sign = 0 THEN Raise("ZeroDivisionError")
    ELSE CHOOSE r \in {TimesLog(RDiv(RTF, sign), lg) :
                         lg \in {LogRatio(C_out, C_in)}} : TRUE

\* the argument conc of nernst: None, or a dict of the ions' concentrations
NoConc == [given |-> FALSE]
Conc(d) == [given |-> TRUE, table |-> d]

\* nernst with dict.get semantics: an ion absent from conc is looked up in
\* the global concentrations
nernstDefaulting(ion, conc) ==
    LET d == IF conc.given /\ ion \in DOMAIN conc.table THEN conc.table
             ELSE concentrations
    IN  IF ion \notin DOMAIN d \/ ion \notin DOMAIN valence THEN Raise("KeyError")
        ELSE nernst_ind(d[ion].o, d[ion].i, valence[ion])

\* nernst(ion, conc=None): conc[ion]['o'], conc[ion]['i'] and valence[ion] are
\* evaluated in this order, each a dict subscript that raises KeyError
nernst(ion, conc) ==
    LET d == IF conc.given THEN conc.table ELSE concentrations
    IN  IF ion \notin DOMAIN d THEN Raise("KeyError")
        ELSE IF ion \notin DOMAIN valence THEN Raise("KeyError")
        ELSE nernst_ind(d[ion].o, d[ion].i, valence[ion])


\* the four sequences zipped: as many ions as the shortest of them has
ZipLen(C_ins, C_outs, ps, zs) ==
    CHOOSE n \in {Len(C_ins), Len(C_outs), Len(ps), Len(zs)} :
        n <= Len(C_ins) /\ n <= Len(C_outs) /\ n <= Len(ps) /\ n <= Len(zs)

RECURSIVE ghk_fromFirstChecked(_, _, _, _, _, _, _)
\* the loop of ghk with the valence asserted for the first ion only
ghk_fromFirstChecked(k, dividend, divisor, C_outs, C_ins, ps, zs) ==
    IF k > ZipLen(C_ins, C_outs, ps, zs) THEN Ok(<<dividend, divisor>>)
    ELSE IF k = 1 /\ Abs(zs[k]) # 1 THEN Raise("AssertionError")
    ELSE IF zs[k] > 0
    THEN ghk_fromFirstChecked(k + 1, dividend + ps[k] * C_outs[k],
                              divisor + ps[k] * C_ins[k], C_outs, C_ins, ps, zs)
    ELSE ghk_fromFirstChecked(k + 1, dividend + ps[k] * C_ins[k],
                              divisor + ps[k] * C_outs[k], C_outs, C_ins, ps, zs)

RECURSIVE ghk_fromSignIgnored(_, _, _, _, _, _, _)
\* the loop of ghk with every ion taken as a cation
ghk_fromSignIgnored(k, dividend, divisor, C_outs, C_ins, ps, zs) ==
    IF k > ZipLen(C_ins, C_outs, ps, zs) THEN Ok(<<dividend, divisor>>)
    ELSE IF Abs(zs[k]) # 1 THEN Raise("AssertionError")
    ELSE ghk_fromSignIgnored(k + 1, dividend + ps[k] * C_outs[k],
                             divisor + ps[k] * C_ins[k], C_outs, C_ins, ps, zs)

RECURSIVE ghk_from(_, _, _, _, _, _, _)
\* the for loop of ghk from the k-th zipped ion on: <<dividend, divisor>>
\* in 1/PermScale, or the AssertionError of a valence that is not 1 or -1
ghk_from(k, dividend, divisor, C_outs, C_ins, ps, zs) ==
    IF k > ZipLen(C_ins, C_outs, ps, zs) THEN Ok(<<dividend, divisor>>)
    ELSE IF Abs(zs[k]) # 1 THEN Raise("AssertionError")
    ELSE IF zs[k] > 0
    THEN ghk_from(k + 1, dividend + ps[k] * C_outs[k], divisor + ps[k] * C_ins[k],
                  C_outs, C_ins, ps, zs)
    ELSE ghk_from(k + 1, dividend + ps[k] * C_ins[k], divisor + ps[k] * C_outs[k],
                  C_outs, C_ins, ps, zs)

\* return RTF*np.log(dividend/divisor)*1000
ghk_return(dd) ==
    IF dd.err # "none" THEN dd
    ELSE CHOOSE r \in {TimesLog(RTF, lg) :
                         lg \in {LogRatio(dd.val[1], dd.val[2])}} : TRUE

\* def ghk(C_outs, C_ins, ps, zs)
ghk(C_outs, C_ins, ps, zs) ==
    CHOOSE r \in {ghk_return(dd) :
                    dd \in {ghk_from(1, 0, 0, C_outs, C_ins, ps, zs)}} : TRUE

-----------------------------------------------------------------------------
(* The kernel's globals and the running cell *)

VARIABLES
    cell,        \* the loop cell being run: "syn", "leak" or "inj"
    pc,          \* "start", a statement of the loop body, "done" or "raised"
    err,         \* the exception that ended the cell, or "none"
    V_rest, C_m, R_m, I_e, A,      \* membrane parameters
    delta,                         \* the offset of the first voltage from V_rest
    T, dt, num_iter,               \* duration, step (1/TScale ms), iterations
    start, end, I_i1, I_i2,        \* injection window (cell 01d0acfd)
    inh_spks, exc_spks,            \* spike times (1/TScale ms)
    V_t, I_leak, I_syn, dV, t,     \* assigned in the loop bodies
    i_e,                           \* _i_e, the injected current of the step
    v,                             \* _v, the recorded voltages
    i,                           \* the loop variable
    step_index,                  \* how many loop bodies have completed
    call, ret,                   \* a call of a function on its own, its result
    runs,                        \* how many cells the kernel has executed
    seen,                        \* the calls and runs so far, with their results
    nb,                          \* the notebook the kernel belongs to
    z, Em_list, driv_list        \* assigned by the sweep (cell d0f28cab)

vars == <<cell, pc, err, V_rest, C_m, R_m, I_e, A, delta, T, dt, num_iter, start, end,
          I_i1, I_i2, inh_spks, exc_spks, V_t, I_leak, I_syn, dV, t, i_e, v, i,
          step_index, call, ret, RTF, valence, concentrations, runs, seen, nb, z,
          Em_list, driv_list>>

\* the globals no statement of a loop body and no function call assigns
kernel == <<RTF, valence, concentrations, runs, seen, nb, z, Em_list, driv_list>>

params == <<cell, V_rest, C_m, R_m, I_e, A, delta, T, dt, start, end, inh_spks, exc_spks,
            kernel>>

NoCall == [fn |-> "none"]

-----------------------------------------------------------------------------
(* Values of the source, in grid units *)

VRestRef   == -65            \* V_rest = -65 mV
CmRef      == 1              \* C_m = 1 nF
RmRef      == 100            \* R_m = 100 MOhm
ARef       == 10             \* A = 10
DeltaV0    == 2              \* V_t = V_rest + 2
IeInjected == 50000          \* I_e = 0.05 nA, in 1/VScale
DtLeakRef  == 50             \* dt = 0.5 ms, in 1/TScale
DtSynRef   == 10             \* dt = 0.1 ms, in 1/TScale
DtSliderMin == 0             \* the dt slider's min
NumIterRef == 4060           \* num_iter = 4060
TKernel    == 1000           \* t = 10 ms, left by cell 2d5b0af0, in 1/TScale
VKernel    == -64200000      \* V_t = -64.2 mV, left by cell 2d5b0af0
ExcSpksRef == <<190, 2200, 4000>>   \* exc_spks = [1.9, 22, 40]
InhRange   == 10             \* inh_spks = np.random.randint(0, t, size=2), t = 10

-----------------------------------------------------------------------------
(* The inputs the model runs the cells on *)

MaxT       == 2              \* longest duration T, whole ms
MaxIter    == 5              \* largest num_iter besides the source's 4060
FarSpike   == 300000         \* a spike 3000 ms ahead, in 1/TScale

Durations == {0, 25, 75} \cup {k * TScale : k \in 1..MaxT}

InhChoices == {<<2 * TScale, 8 * TScale>>, <<0, 0>>,
               <<(InhRange - 1) * TScale, 3 * TScale>>}

ExcChoices == {ExcSpksRef, <<>>, <<190, 2200, FarSpike>>}

SynBase ==
    [cell |-> "syn", V_rest |-> VRestRef * VScale, C_m |-> CmRef, R_m |-> RmRef,
     I_e |-> 0, A |-> ARef, delta |-> DeltaV0 * VScale,
     T |-> TScale, dt |-> DtSynRef, num_iter |-> 0, start |-> 0, end |-> 0,
     inh |-> <<2 * TScale, 8 * TScale>>, exc |-> ExcSpksRef]

SynConfigs ==
    {[SynBase EXCEPT !.T = d, !.dt = s, !.I_e = ie, !.inh = ih, !.exc = ex] :
        d \in Durations, s \in {DtSynRef, DtLeakRef}, ie \in {0, IeInjected},
        ih \in InhChoices, ex \in ExcChoices}
    \cup {[SynBase EXCEPT !.C_m = c] : c \in {0, -1}}
    \cup {[SynBase EXCEPT !.R_m = r] : r \in {0, -RmRef}}
    \cup {[SynBase EXCEPT !.A = a, !.I_e = IeInjected] : a \in {0, -ARef}}
    \cup {[SynBase EXCEPT !.dt = s] : s \in {DtSliderMin, -DtSynRef}}

\* R_m * C_m of the reference parameters, in 1/TScale
TauRef == RmRef * CmRef * TScale

LeakBase ==
    [SynBase EXCEPT !.cell = "leak", !.dt = DtLeakRef, !.T = 0, !.inh = <<>>,
                    !.exc = <<>>]

LeakConfigs ==
    {[LeakBase EXCEPT !.num_iter = NumIterRef]}
    \cup {[LeakBase EXCEPT !.num_iter = MaxIter, !.delta = d * VScale] :
            d \in {-DeltaV0, 0}}
    \cup {[LeakBase EXCEPT !.num_iter = n, !.dt = s, !.I_e = ie] :
            n \in 0..MaxIter, s \in {DtSliderMin, DtLeakRef, TScale},
            ie \in {0, IeInjected}}
    \cup {[LeakBase EXCEPT !.num_iter = MaxIter, !.C_m = c] : c \in {0, -1}}
    \cup {[LeakBase EXCEPT !.num_iter = MaxIter, !.R_m = r] : r \in {0, -RmRef}}
    \cup {[LeakBase EXCEPT !.num_iter = MaxIter, !.A = a] : a \in {0, -ARef}}
    \cup {[LeakBase EXCEPT !.num_iter = MaxIter, !.dt = k * TauRef] :
            k \in {1, 2}}
    \cup {[LeakBase EXCEPT !.num_iter = MaxIter, !.V_rest = -3 * VScale,
                           !.R_m = 105, !.C_m = 3, !.dt = s] :
            s \in {105 * 3 * TScale, (105 * 3 * TScale) \div 2}}

InjBase ==
    [LeakBase EXCEPT !.cell = "inj", !.I_e = IeInjected, !.delta = 0,
                     !.start = 50, !.end = 2 * TScale]

InjConfigs ==
    {[InjBase EXCEPT !.num_iter = n, !.dt = s, !.A = a] :
        n \in 0..MaxIter, s \in {DtSliderMin, DtLeakRef}, a \in {ARef, 1}}
    \cup {[InjBase EXCEPT !.num_iter = MaxIter, !.R_m = 0]}

Configs == SynConfigs \cup LeakConfigs \cup InjConfigs

\* the globals as the cells 26dd164d and 14894b37 leave them
KernelInit ==
    /\ RTF = RTFExpr(RGas, TKelvin, Faraday)
    /\ valence = ValenceRef
    /\ concentrations = ConcentrationsRef
    /\ z = ValenceRef /\ Em_list = <<>> /\ driv_list = <<>>
    /\ runs = 0
    /\ seen = {}

Init ==
    \E c \in Configs :
        /\ cell = c.cell /\ pc = "start" /\ err = "none"
        /\ V_rest = c.V_rest /\ C_m = c.C_m /\ R_m = c.R_m /\ I_e = c.I_e
        /\ A = c.A /\ T = c.T /\ dt = c.dt /\ num_iter = c.num_iter
        /\ start = c.start /\ end = c.end /\ I_i1 = 0 /\ I_i2 = 0
        /\ inh_spks = c.inh /\ exc_spks = c.exc
        /\ delta = c.delta /\ V_t = VKernel /\ I_leak = 0 /\ I_syn = 0 /\ dV = 0 /\ t = TKernel
        /\ i_e = 0 /\ v = <<>> /\ i = 0 /\ step_index = 0
        /\ call = NoCall /\ ret = Ok(0)
        /\ KernelInit
        /\ nb = IF c.cell = "syn" THEN "part_000" ELSE "neuron"

-----------------------------------------------------------------------------
(* Statements shared by the cells *)

\* n / d rounded to the nearest integer, halves to the even neighbour
HalfEven(n, d) ==
    IF 2 * (n % d) > d \/ (2 * (n % d) = d /\ (n \div d) % 2 = 1)
    THEN (n \div d) + 1 ELSE n \div d

\* round(a / b), b # 0: Python rounds halves to the even neighbour
PyRound(a, b) == Sgn(a) * Sgn(b) * HalfEven(Abs(a), Abs(b))

\* the leak current of cell 746fc66a, computed once and never reassigned
I_leakStale(V, Vr, Rm) ==
    IF Rm = 0 THEN Raise("ZeroDivisionError") ELSE Ok(RDiv(DeltaV0 * VScale, Rm))

\* I_leak = (V_t - V_rest)/R_m
I_leakExpr(V, Vr, Rm) ==
    IF Rm = 0 THEN Raise("ZeroDivisionError") ELSE Ok(RDiv(V - Vr, Rm))

\* x + y of two results; x is evaluated first
Plus(x, y) ==
    IF x.err # "none" THEN x ELSE IF y.err # "none" THEN y ELSE Ok(x.val + y.val)

\* I_syn = I_GABA(t, V_t, inh_spks) + I_AMPA(t, V_t, exc_spks)
I_synExpr(tt, V, inh, exc) ==
    CHOOSE r \in {Plus(x, y) :
                    x \in {I_GABA(tt, V, inh, GMaxDefault, TauGABA, EGABA)},
                    y \in {I_AMPA(tt, V, exc, GMaxDefault, TauAMPA, EAMPA)}} : TRUE

\* dV = (-I_leak - I_syn + I_e/A) * dt/C_m      (part_000, cell 8ec05a04)
dVSyn(Il, Is, Ie, a, d, Cm) ==
    IF a = 0 \/ Cm = 0 THEN Raise("ZeroDivisionError")
    ELSE Ok(RDiv(MulDiv(-Il - Is + RDiv(Ie, a), d, TScale), Cm))

\* dV = (-I_leak + I_e) * dt/C_m                (neuron.ipynb, both loops)
dVLeak(Il, Ie, d, Cm) ==
    IF Cm = 0 THEN Raise("ZeroDivisionError")
    ELSE Ok(RDiv(MulDiv(-Il + Ie, d, TScale), Cm))

\* t += dt, on the t the kernel holds
TimeAccumulated(k, d) == t + d

\* t = i*dt
TimeOf(k, d) == k * d

\* the exception x leaves the cell; nothing is assigned by the statement
Fail(x) == pc' = "raised" /\ err' = x

\* for i in range(n): the first binding of i, or no iteration at all
Enter(n, first) ==
    IF n > 0 THEN i' = 0 /\ pc' = first ELSE pc' = "done" /\ UNCHANGED i

\* a loop that runs its body once more
LoopInclusive(first) ==
    /\ step_index' = step_index + 1
    /\ IF i + 1 <= num_iter THEN i' = i + 1 /\ pc' = first
                            ELSE pc' = "done" /\ UNCHANGED i

\* the end of a loop body: the next binding of i, or the end of the loop
Loop(first) ==
    /\ step_index' = step_index + 1
    /\ IF i + 1 < num_iter THEN i' = i + 1 /\ pc' = first
                           ELSE pc' = "done" /\ UNCHANGED i

-----------------------------------------------------------------------------
(* part_000, cell 8ec05a04: leak and synapses *)

SynStart ==
    /\ cell = "syn" /\ pc = "start"
    /\ V_t' = V_rest + delta
    /\ IF dt = 0
       THEN Fail("ZeroDivisionError") /\ UNCHANGED <<num_iter, i>>
       ELSE /\ num_iter' = PyRound(T, dt)
            /\ Enter(num_iter', "t")
            /\ UNCHANGED err
    /\ UNCHANGED <<params, start, end, I_i1, I_i2, I_leak, I_syn, dV, t, i_e, v,
                   step_index, call, ret>>

SynTime ==
    /\ cell = "syn" /\ pc = "t"
    /\ t' = TimeOf(i, dt)
    /\ pc' = "leak"
    /\ UNCHANGED <<params, err, num_iter, start, end, I_i1, I_i2, V_t, I_leak,
                   I_syn, dV, i_e, v, i, step_index, call, ret>>

\* the leak applied to the voltage before the synaptic currents are computed
SynLeakEager ==
    /\ cell = "syn" /\ pc = "leak"
    /\ \E r \in {I_leakExpr(V_t, V_rest, R_m)} :
           IF r.err # "none" THEN Fail(r.err) /\ UNCHANGED <<I_leak, V_t>>
           ELSE /\ I_leak' = r.val /\ pc' = "syn" /\ UNCHANGED err
                /\ V_t' = V_t + dVLeak(r.val, 0, dt, C_m).val
    /\ UNCHANGED <<params, num_iter, start, end, I_i1, I_i2, I_syn, dV, t,
                   i_e, v, i, step_index, call, ret>>

SynLeak ==
    /\ cell = "syn" /\ pc = "leak"
    /\ \E r \in {I_leakExpr(V_t, V_rest, R_m)} :
           IF r.err # "none" THEN Fail(r.err) /\ UNCHANGED I_leak
           ELSE I_leak' = r.val /\ pc' = "syn" /\ UNCHANGED err
    /\ UNCHANGED <<params, num_iter, start, end, I_i1, I_i2, V_t, I_syn, dV, t,
                   i_e, v, i, step_index, call, ret>>

\* a failing source taken as no current: the error is swallowed
SynSynSwallow ==
    /\ cell = "syn" /\ pc = "syn"
    /\ \E r \in {I_synExpr(t, V_t, inh_spks, exc_spks)} :
           I_syn' = r.val /\ pc' = "dV" /\ UNCHANGED err
    /\ UNCHANGED <<params, num_iter, start, end, I_i1, I_i2, V_t, I_leak, dV, t,
                   i_e, v, i, step_index, call, ret>>

\* a source that consumes the spikes it has delivered
SynSynConsume ==
    /\ cell = "syn" /\ pc = "syn"
    /\ \E r \in {I_synExpr(t, V_t, inh_spks, exc_spks)} :
           IF r.err # "none" THEN Fail(r.err) /\ UNCHANGED I_syn
           ELSE I_syn' = r.val /\ pc' = "dV" /\ UNCHANGED err
    /\ exc_spks' = SelectSeq(exc_spks, LAMBDA s : s > t)
    /\ UNCHANGED <<cell, V_rest, C_m, R_m, I_e, A, delta, T, dt, start, end,
                   inh_spks, kernel, num_iter, I_i1, I_i2, V_t, I_leak, dV, t,
                   i_e, v, i, step_index, call, ret>>

SynSyn ==
    /\ cell = "syn" /\ pc = "syn"
    /\ \E r \in {I_synExpr(t, V_t, inh_spks, exc_spks)} :
           IF r.err # "none" THEN Fail(r.err) /\ UNCHANGED I_syn
           ELSE I_syn' = r.val /\ pc' = "dV" /\ UNCHANGED err
    /\ UNCHANGED <<params, num_iter, start, end, I_i1, I_i2, V_t, I_leak, dV, t,
                   i_e, v, i, step_index, call, ret>>

SynDV ==
    /\ cell = "syn" /\ pc = "dV"
    /\ \E r \in {dVSyn(I_leak, I_syn, I_e, A, dt, C_m)} :
           IF r.err # "none" THEN Fail(r.err) /\ UNCHANGED dV
           ELSE dV' = r.val /\ pc' = "upd" /\ UNCHANGED err
    /\ UNCHANGED <<params, num_iter, start, end, I_i1, I_i2, V_t, I_leak, I_syn,
                   t, i_e, v, i, step_index, call, ret>>

SynUpdate ==
    /\ cell = "syn" /\ pc = "upd"
    /\ V_t' = V_t + dV
    /\ Loop("t")
    /\ UNCHANGED <<params, err, num_iter, start, end, I_i1, I_i2, I_leak, I_syn,
                   dV, t, i_e, v, call, ret>>

-----------------------------------------------------------------------------
(* neuron.ipynb, cell 6d620e7e: the leak alone *)

LeakStart ==
    /\ cell = "leak" /\ pc = "start"
    /\ V_t' = V_rest + delta
    /\ Enter(num_iter, "leak")
    /\ UNCHANGED <<params, err, num_iter, start, end, I_i1, I_i2, I_leak, I_syn,
                   dV, t, i_e, v, step_index, call, ret>>

LeakLeak ==
    /\ cell = "leak" /\ pc = "leak"
    /\ \E r \in {I_leakExpr(V_t, V_rest, R_m)} :
           IF r.err # "none" THEN Fail(r.err) /\ UNCHANGED I_leak
           ELSE I_leak' = r.val /\ pc' = "dV" /\ UNCHANGED err
    /\ UNCHANGED <<params, num_iter, start, end, I_i1, I_i2, V_t, I_syn, dV, t,
                   i_e, v, i, step_index, call, ret>>

LeakDV ==
    /\ cell = "leak" /\ pc = "dV"
    /\ \E r \in {dVLeak(I_leak, I_e, dt, C_m)} :
           IF r.err # "none" THEN Fail(r.err) /\ UNCHANGED dV
           ELSE dV' = r.val /\ pc' = "upd" /\ UNCHANGED err
    /\ UNCHANGED <<params, num_iter, start, end, I_i1, I_i2, V_t, I_leak, I_syn,
                   t, i_e, v, i, step_index, call, ret>>

LeakUpdate ==
    /\ cell = "leak" /\ pc = "upd"
    /\ V_t' = V_t + dV
    /\ Loop("leak")
    /\ UNCHANGED <<params, err, num_iter, start, end, I_i1, I_i2, I_leak, I_syn,
                   dV, t, i_e, v, call, ret>>

-----------------------------------------------------------------------------
(* neuron.ipynb, cell 01d0acfd: injected current, recorded voltages *)

\* _i_e = I_e if I_i1 < i < I_i2 else 0, the bounds in 1/TScale
InjectedAt(k, lo, hi, Ie) == IF lo < k * TScale /\ k * TScale < hi THEN Ie ELSE 0

InjStart ==
    /\ cell = "inj" /\ pc = "start"
    /\ IF dt = 0
       THEN Fail("ZeroDivisionError") /\ UNCHANGED <<I_i1, I_i2, V_t, v, i>>
       ELSE /\ I_i1' = RDiv(start * TScale, dt)
            /\ I_i2' = RDiv(end * TScale, dt)
            /\ V_t' = V_rest + delta
            /\ v' = <<>>
            /\ Enter(num_iter, "append")
            /\ UNCHANGED err
    /\ UNCHANGED <<params, num_iter, start, end, I_leak, I_syn, dV, t, i_e,
                   step_index, call, ret>>

\* the voltage recorded with the last step's change added once more
InjAppendLate ==
    /\ cell = "inj" /\ pc = "append"
    /\ v' = Append(v, V_t + dV)
    /\ pc' = "leak"
    /\ UNCHANGED <<params, err, num_iter, start, end, I_i1, I_i2, V_t, I_leak,
                   I_syn, dV, t, i_e, i, step_index, call, ret>>

InjAppend ==
    /\ cell = "inj" /\ pc = "append"
    /\ v' = Append(v, V_t)
    /\ pc' = "leak"
    /\ UNCHANGED <<params, err, num_iter, start, end, I_i1, I_i2, V_t, I_leak,
                   I_syn, dV, t, i_e, i, step_index, call, ret>>

InjLeak ==
    /\ cell = "inj" /\ pc = "leak"
    /\ \E r \in {I_leakExpr(V_t, V_rest, R_m)} :
           IF r.err # "none" THEN Fail(r.err) /\ UNCHANGED I_leak
           ELSE I_leak' = r.val /\ pc' = "ie" /\ UNCHANGED err
    /\ UNCHANGED <<params, num_iter, start, end, I_i1, I_i2, V_t, I_syn, dV, t,
                   i_e, v, i, step_index, call, ret>>

\* the injected current of the step assigned to I_e itself
InjCurrentClobber ==
    /\ cell = "inj" /\ pc = "ie"
    /\ i_e' = InjectedAt(i, I_i1, I_i2, I_e)
    /\ I_e' = InjectedAt(i, I_i1, I_i2, I_e)
    /\ pc' = "dV"
    /\ UNCHANGED <<cell, V_rest, C_m, R_m, A, delta, T, dt, start, end, inh_spks,
                   exc_spks, kernel, err, num_iter, I_i1, I_i2, V_t, I_leak,
                   I_syn, dV, t, v, i, step_index, call, ret>>

InjCurrent ==
    /\ cell = "inj" /\ pc = "ie"
    /\ i_e' = InjectedAt(i, I_i1, I_i2, I_e)
    /\ pc' = "dV"
    /\ UNCHANGED <<params, err, num_iter, start, end, I_i1, I_i2, V_t, I_leak,
                   I_syn, dV, t, v, i, step_index, call, ret>>

InjDV ==
    /\ cell = "inj" /\ pc = "dV"
    /\ \E r \in {dVLeak(I_leak, i_e, dt, C_m)} :
           IF r.err # "none" THEN Fail(r.err) /\ UNCHANGED dV
           ELSE dV' = r.val /\ pc' = "upd" /\ UNCHANGED err
    /\ UNCHANGED <<params, num_iter, start, end, I_i1, I_i2, V_t, I_leak, I_syn,
                   t, i_e, v, i, step_index, call, ret>>

InjUpdate ==
    /\ cell = "inj" /\ pc = "upd"
    /\ V_t' = V_t + dV
    /\ Loop("append")
    /\ UNCHANGED <<params, err, num_iter, start, end, I_i1, I_i2, I_leak, I_syn,
                   dV, t, i_e, v, call, ret>>

-----------------------------------------------------------------------------

Next ==
    \/ SynStart \/ SynTime \/ SynLeak \/ SynSyn \/ SynDV \/ SynUpdate
    \/ LeakStart \/ LeakLeak \/ LeakDV \/ LeakUpdate
    \/ InjStart \/ InjAppend \/ InjLeak \/ InjCurrent \/ InjDV \/ InjUpdate

Spec == Init /\ [][Next]_vars

\* a running cell is never suspended: the kernel executes it to its end
FairSpec == Spec /\ WF_vars(Next)

-----------------------------------------------------------------------------
(* The functions called on their own, as cell addee5d6 calls g_syn(t, spks) *)

MaxSpikes == 2               \* longest spike list of a call

CallTimes == {0, 190, 2200, 4000, FarSpike, FarSpike + 4000}

RECURSIVE SeqsUpTo(_, _)
\* the sequences over S of length at most n
SeqsUpTo(S, n) ==
    IF n = 0 THEN {<<>>}
    ELSE SeqsUpTo(S, n - 1)
         \cup {Append(q, x) : q \in {r \in SeqsUpTo(S, n - 1) : Len(r) = n - 1}, x \in S}

\* the first exponent magnitude, in 1/XScale, at which 2.71828 ** (-x) is 0.0:
\* 2.71828 ** (-745.1337) = 5e-324, 2.71828 ** (-745.1338) = 0.0
UnderflowAt == 7451338

\* a power with the gate open stays on the grid: tau < 0 makes the exponent
\* of a past spike positive, and with tau > 0 the power of a spike long past
\* is either on the grid or 0.0 as a double, never a positive double that
\* the grid would round to 0
OnGrid(c) ==
    \A k \in 1..Len(c.spks) :
        /\ c.tau < 0 /\ c.t >= c.spks[k] => c.t - c.spks[k] <= -c.tau * TScale
        /\ c.tau > 0 /\ c.t >= c.spks[k] =>
              \/ Exponent(c.t, c.spks[k], c.tau).val >= -PowMinArg
              \/ Exponent(c.t, c.spks[k], c.tau).val <= -UnderflowAt

GsynCalls ==
    {c \in [fn : {"g_syn"}, t : CallTimes, spks : SeqsUpTo(CallTimes, MaxSpikes),
            g_max : {0, 1, GMaxDefault}, tau : {-TauAMPA, 0, 1, TauAMPA, TauGABA}] :
        OnGrid(c)}

\* the calls I_AMPA(t, V_t, spks, g_max, tau, E) and I_GABA(...), as cell
\* c5509c64 makes them; both presets' defaults are among the arguments
CurrentCalls ==
    {c \in [fn : {"I_AMPA", "I_GABA"}, t : CallTimes, V : {VKernel, -63 * VScale},
            spks : SeqsUpTo(CallTimes, MaxSpikes), g_max : {1, GMaxDefault},
            tau : {TauAMPA, TauGABA}, E : {EAMPA, EGABA}] :
        OnGrid(c)}

MaxIons == 3                 \* longest ion list of a call of ghk

\* ions [o, i, p, z]: outside and inside concentration, permeability in
\* 1/PermScale, valence.  The first three are the docstring's K, Na and Cl,
\* the next two the sweep's Cl (at Cl_i = 0) and HCO3; then a cation with no
\* inside concentration and ions of valence 2, -2 and 0.
IonPool ==
    {[o |-> 4,   i |-> 150, p |-> 100, z |-> 1],
     [o |-> 125, i |-> 15,  p |-> 5,   z |-> 1],
     [o |-> 110, i |-> 10,  p |-> 45,  z |-> -1],
     [o |-> 135, i |-> 0,   p |-> 80,  z |-> -1],
     [o |-> 25,  i |-> 10,  p |-> 20,  z |-> -1],
     [o |-> 4,   i |-> 0,   p |-> 100, z |-> 1],
     [o |-> 2,   i |-> 1,   p |-> 10,  z |-> 2],
     [o |-> 1,   i |-> 1,   p |-> 10,  z |-> -2],
     [o |-> 5,   i |-> 5,   p |-> 10,  z |-> 0]}

\* a list without its last element
Shortened(q) == SubSeq(q, 1, Len(q) - 1)

\* the four argument lists of ghk for a list of ions, the list named by cut
\* one element short
GhkArgs(ions, cut) ==
    [fn     |-> "ghk",
     C_outs |-> IF cut = "C_outs" THEN Shortened([k \in 1..Len(ions) |-> ions[k].o])
                ELSE [k \in 1..Len(ions) |-> ions[k].o],
     C_ins  |-> IF cut = "C_ins" THEN Shortened([k \in 1..Len(ions) |-> ions[k].i])
                ELSE [k \in 1..Len(ions) |-> ions[k].i],
     ps     |-> IF cut = "ps" THEN Shortened([k \in 1..Len(ions) |-> ions[k].p])
                ELSE [k \in 1..Len(ions) |-> ions[k].p],
     zs     |-> IF cut = "zs" THEN Shortened([k \in 1..Len(ions) |-> ions[k].z])
                ELSE [k \in 1..Len(ions) |-> ions[k].z]]

GhkCalls ==
    {GhkArgs(ions, cut) : ions \in SeqsUpTo(IonPool, MaxIons),
                          cut \in {"none", "C_outs", "C_ins", "ps", "zs"}}

NernstCalls ==
    [fn : {"nernst_ind"}, C_out : {-5, 0, 5, 135}, C_in : {-5, 0, 5, 140},
     sign : {-2, -1, 0, 1, 2}]

\* the ion names of the calls: the four of the notebook and one it has not
IonNames == {"K", "Na", "Cl", "HCO3", "Ca"}

\* the dicts passed as conc: the docstring's dict(Cl=dict(i=5, o=135)), and
\* dicts whose entries carry the ion's valence as well, under the key z
ConcTables ==
    {[Cl |-> [i |-> 5, o |-> 135]],
     [Cl |-> [i |-> 10, o |-> 110, z |-> -1], K |-> [i |-> 150, o |-> 4, z |-> 1]],
     [Ca |-> [i |-> 1, o |-> 2, z |-> 2], Na |-> [i |-> 15, o |-> 125, z |-> 1]]}

NernstIonCalls ==
    [fn : {"nernst"}, ion : IonNames, conc : {NoConc} \cup {Conc(d) : d \in ConcTables}]

Calls == GsynCalls \cup CurrentCalls \cup GhkCalls \cup NernstCalls \cup NernstIonCalls

InitFn ==
    /\ call \in Calls /\ ret = Ok(0) /\ pc = "call"
    /\ cell = "none" /\ err = "none"
    /\ V_rest = 0 /\ C_m = 0 /\ R_m = 0 /\ I_e = 0 /\ A = 0 /\ delta = 0
    /\ T = 0 /\ dt = 0 /\ num_iter = 0 /\ start = 0 /\ end = 0
    /\ I_i1 = 0 /\ I_i2 = 0 /\ inh_spks = <<>> /\ exc_spks = <<>>
    /\ V_t = VKernel /\ I_leak = 0 /\ I_syn = 0 /\ dV = 0 /\ t = TKernel
    /\ i_e = 0 /\ v = <<>> /\ i = 0 /\ step_index = 0
    /\ KernelInit /\ nb = "part_000"

\* the call returns a value or raises
CallGsyn ==
    /\ pc = "call" /\ call.fn = "g_syn"
    /\ ret' = g_syn(call.t, call.spks, call.g_max, call.tau)
    /\ pc' = "returned"
    /\ UNCHANGED <<params, err, num_iter, start, end, I_i1, I_i2, V_t, I_leak,
                   I_syn, dV, t, i_e, v, i, step_index, call>>

CallAMPA ==
    /\ pc = "call" /\ call.fn = "I_AMPA"
    /\ ret' = I_AMPA(call.t, call.V, call.spks, call.g_max, call.tau, call.E)
    /\ pc' = "returned"
    /\ UNCHANGED <<params, err, num_iter, start, end, I_i1, I_i2, V_t, I_leak,
                   I_syn, dV, t, i_e, v, i, step_index, call>>

CallGABA ==
    /\ pc = "call" /\ call.fn = "I_GABA"
    /\ ret' = I_GABA(call.t, call.V, call.spks, call.g_max, call.tau, call.E)
    /\ pc' = "returned"
    /\ UNCHANGED <<params, err, num_iter, start, end, I_i1, I_i2, V_t, I_leak,
                   I_syn, dV, t, i_e, v, i, step_index, call>>

CallGhk ==
    /\ pc = "call" /\ call.fn = "ghk"
    /\ ret' = ghk(call.C_outs, call.C_ins, call.ps, call.zs)
    /\ pc' = "returned"
    /\ UNCHANGED <<params, err, num_iter, start, end, I_i1, I_i2, V_t, I_leak,
                   I_syn, dV, t, i_e, v, i, step_index, call>>

CallNernstInd ==
    /\ pc = "call" /\ call.fn = "nernst_ind"
    /\ ret' = nernst_ind(call.C_out, call.C_in, call.sign)
    /\ pc' = "returned"
    /\ UNCHANGED <<params, err, num_iter, start, end, I_i1, I_i2, V_t, I_leak,
                   I_syn, dV, t, i_e, v, i, step_index, call>>

CallNernst ==
    /\ pc = "call" /\ call.fn = "nernst"
    /\ ret' = nernst(call.ion, call.conc)
    /\ pc' = "returned"
    /\ UNCHANGED <<params, err, num_iter, start, end, I_i1, I_i2, V_t, I_leak,
                   I_syn, dV, t, i_e, v, i, step_index, call>>

NextFn == CallGsyn \/ CallAMPA \/ CallGABA \/ CallGhk \/ CallNernstInd \/ CallNernst

SpecFn == InitFn /\ [][NextFn]_vars

-----------------------------------------------------------------------------
(* The kernel between cells: the cells of a notebook run one after another, *)
(* in any order and any number of times, on the globals the earlier ones    *)
(* left.  A loop cell runs statement by statement, by the actions above.    *)

MaxRuns    == 4              \* cells executed in one session of the kernel
ConstIter  == 10             \* for i in range(10)
DtFirst    == 1              \* dt = 0.01 ms, in 1/TScale
SweepLen   == 3              \* the sweep's first values Cl_i = 0, 1, ...
VmSweep    == -65            \* Vm = -65
Pcl        == 80             \* pcl = 0.8, in 1/PermScale
Phco3      == 20             \* phco3 = 0.2, in 1/PermScale
ClOut      == 135            \* C_outs = [135, 25]
Hco3Out    == 25
Hco3In     == 10             \* C_ins = [Cl_i, 10]

LoopCells == {"syn", "leak", "inj", "const"}

\* no cell is running
Idle == pc \in {"idle", "done", "raised", "returned"}

\* what a run of a loop cell is given, and what it leaves
RunKey ==
    [cell |-> cell, V_rest |-> V_rest, C_m |-> C_m, R_m |-> R_m, I_e |-> I_e,
     A |-> A, delta |-> delta, T |-> T, dt |-> dt, num_iter |-> num_iter,
     start |-> start, end |-> end, inh |-> inh_spks, exc |-> exc_spks,
     dV |-> IF cell = "const" THEN dV ELSE 0]

RunResult == [V_t |-> V_t, v |-> IF cell = "inj" THEN v ELSE <<>>]

\* the finished run joins the runs and calls seen so far
Remember ==
    IF pc = "done" /\ cell \in LoopCells
    THEN seen \cup {<<RunKey, RunResult, runs>>} ELSE seen

\* the kernel starts executing the cell c of the notebook n
Begin(n, c) ==
    /\ Idle /\ nb = n /\ runs < MaxRuns
    /\ cell' = c /\ runs' = runs + 1 /\ step_index' = 0
    /\ UNCHANGED nb

membrane == <<V_rest, C_m, R_m, A>>
injected == <<start, end, I_i1, I_i2, i_e, v>>
synaptic == <<inh_spks, exc_spks, I_syn, t>>
reversal == <<RTF, valence, concentrations, z, Em_list, driv_list>>

\* neuron.ipynb, cell b6e3ad97
RunParams ==
    /\ Begin("neuron", "params")
    /\ V_rest' = VRestRef * VScale /\ C_m' = CmRef /\ R_m' = RmRef
    /\ I_e' = 0 /\ A' = ARef
    /\ pc' = "done" /\ err' = "none" /\ seen' = Remember
    /\ UNCHANGED <<delta, T, dt, num_iter, V_t, I_leak, dV, i, injected, synaptic,
                   reversal, call, ret>>

\* neuron.ipynb, cell 746fc66a
RunFirst ==
    /\ Begin("neuron", "first")
    /\ V_t' = V_rest + DeltaV0 * VScale
    /\ \E r \in {I_leakExpr(V_rest + DeltaV0 * VScale, V_rest, R_m)} :
           IF r.err # "none" THEN Fail(r.err) /\ UNCHANGED I_leak
           ELSE I_leak' = r.val /\ pc' = "done" /\ err' = "none"
    /\ seen' = Remember
    /\ UNCHANGED <<membrane, I_e, delta, T, dt, num_iter, dV, i, injected, synaptic,
                   reversal, call, ret>>

\* neuron.ipynb, cell 7e91fa06
RunDV ==
    /\ Begin("neuron", "dV")
    /\ dt' = DtFirst
    /\ \E r \in {dVLeak(I_leak, I_e, DtFirst, C_m)} :
           IF r.err # "none" THEN Fail(r.err) /\ UNCHANGED dV
           ELSE dV' = r.val /\ pc' = "done" /\ err' = "none"
    /\ seen' = Remember
    /\ UNCHANGED <<membrane, I_e, delta, T, num_iter, V_t, I_leak, i, injected,
                   synaptic, reversal, call, ret>>

\* neuron.ipynb, cell 7bb4da66: for i in range(10)
RunConst ==
    /\ Begin("neuron", "const")
    /\ Enter(ConstIter, "upd")
    /\ err' = "none" /\ seen' = Remember
    /\ UNCHANGED <<membrane, I_e, delta, T, dt, num_iter, V_t, I_leak, dV, injected,
                   synaptic, reversal, call, ret>>

\* neuron.ipynb, cell 7bb4da66: V_t = V_t + dV
ConstUpdate ==
    /\ cell = "const" /\ pc = "upd"
    /\ V_t' = V_t + dV
    /\ step_index' = step_index + 1
    /\ IF i + 1 < ConstIter THEN i' = i + 1 /\ pc' = "upd"
                            ELSE pc' = "done" /\ UNCHANGED i
    /\ UNCHANGED <<params, err, num_iter, start, end, I_i1, I_i2, I_leak, I_syn,
                   dV, t, i_e, v, call, ret>>

\* neuron.ipynb, cell 6d620e7e up to V_t = V_rest + 2: the two sliders
RunLeak ==
    /\ Begin("neuron", "leak")
    /\ num_iter' = MaxIter
    /\ dt' \in {DtLeakRef, TScale}
    /\ delta' = DeltaV0 * VScale
    /\ pc' = "start" /\ err' = "none" /\ seen' = Remember
    /\ UNCHANGED <<membrane, I_e, T, V_t, I_leak, dV, i, injected, synaptic,
                   reversal, call, ret>>

\* neuron.ipynb, cell 01d0acfd up to end = 1000
RunInj ==
    /\ Begin("neuron", "inj")
    /\ num_iter' = MaxIter
    /\ dt' = DtLeakRef
    /\ I_e' = IeInjected
    /\ start' = InjBase.start /\ end' = InjBase.end
    /\ delta' = 0
    /\ pc' = "start" /\ err' = "none" /\ seen' = Remember
    /\ UNCHANGED <<membrane, T, V_t, I_leak, dV, i, I_i1, I_i2, i_e, v, synaptic,
                   reversal, call, ret>>

\* part_000, cell 2d5b0af0: inh_spks is drawn at random
RunSpikes ==
    /\ Begin("part_000", "spikes")
    /\ t' = TKernel /\ V_t' = VKernel
    /\ exc_spks' = ExcSpksRef
    /\ inh_spks' \in InhChoices
    /\ pc' = "done" /\ err' = "none" /\ seen' = Remember
    /\ UNCHANGED <<membrane, I_e, delta, T, dt, num_iter, I_leak, I_syn, dV, i,
                   injected, reversal, call, ret>>

\* part_000, cell 8ec05a04 up to dt = 0.1
RunSyn ==
    /\ Begin("part_000", "syn")
    /\ V_rest' = VRestRef * VScale /\ C_m' = CmRef /\ R_m' = RmRef
    /\ I_e' = 0 /\ A' = ARef
    /\ delta' = DeltaV0 * VScale
    /\ T' = 25
    /\ dt' = DtSynRef
    /\ pc' = "start" /\ err' = "none" /\ seen' = Remember
    /\ UNCHANGED <<num_iter, V_t, I_leak, dV, i, injected, synaptic, reversal,
                   call, ret>>

\* the constants computed from the T the kernel holds
RunConstantsKeepT ==
    /\ Begin("part_000", "constants")
    /\ RTF' = RTFExpr(RGas, T, Faraday)
    /\ valence' = ValenceRef /\ z' = ValenceRef
    /\ pc' = "done" /\ err' = "none" /\ seen' = Remember
    /\ UNCHANGED <<membrane, I_e, delta, T, dt, num_iter, V_t, I_leak, dV, i,
                   injected, synaptic, concentrations, Em_list, driv_list, call, ret>>

\* part_000, cell 14894b37
RunConstants ==
    /\ Begin("part_000", "constants")
    /\ T' = TKelvin
    /\ RTF' = RTFExpr(RGas, TKelvin, Faraday)
    /\ valence' = ValenceRef /\ z' = ValenceRef
    /\ pc' = "done" /\ err' = "none" /\ seen' = Remember
    /\ UNCHANGED <<membrane, I_e, delta, dt, num_iter, V_t, I_leak, dV, i,
                   injected, synaptic, concentrations, Em_list, driv_list, call, ret>>

\* part_000, cell 26dd164d
RunConcentrations ==
    /\ Begin("part_000", "concentrations")
    /\ concentrations' = ConcentrationsRef
    /\ pc' = "done" /\ err' = "none" /\ seen' = Remember
    /\ UNCHANGED <<membrane, I_e, delta, T, dt, num_iter, V_t, I_leak, dV, i,
                   injected, synaptic, RTF, valence, z, Em_list, driv_list, call, ret>>

\* Em = ghk(C_outs, C_ins, ps, z) for the k-th value of Cl_i
SweepEm(k, zs) == ghk(<<ClOut, Hco3Out>>, <<k - 1, Hco3In>>, <<Pcl, Phco3>>, zs)

\* how many values of Cl_i the sweep got through before ghk raised
SweepDone(zs) ==
    CHOOSE n \in 0..SweepLen :
        /\ \A k \in 1..n : SweepEm(k, zs).err = "none"
        /\ n < SweepLen => SweepEm(n + 1, zs).err # "none"

\* part_000, cell d0f28cab
RunSweep ==
    /\ Begin("part_000", "sweep")
    /\ valence' = ValenceRef
    /\ z' = <<ValenceRef.Cl, ValenceRef.HCO3>>
    /\ \E n \in {SweepDone(<<ValenceRef.Cl, ValenceRef.HCO3>>)} :
        /\ Em_list' = [k \in 1..n |-> SweepEm(k, <<ValenceRef.Cl, ValenceRef.HCO3>>).val]
        /\ driv_list' = [k \in 1..n |->
                            VmSweep * VScale
                            - SweepEm(k, <<ValenceRef.Cl, ValenceRef.HCO3>>).val]
        /\ IF n = SweepLen THEN pc' = "done" /\ err' = "none"
           ELSE Fail(SweepEm(n + 1, <<ValenceRef.Cl, ValenceRef.HCO3>>).err)
    /\ seen' = Remember
    /\ UNCHANGED <<membrane, I_e, delta, T, dt, num_iter, V_t, I_leak, dV, i,
                   injected, synaptic, RTF, concentrations, call, ret>>

\* the calls of the docstrings and of cell addee5d6
KernelCalls ==
    {[fn |-> "nernst_ind", C_out |-> 135, C_in |-> 5, sign |-> -1],
     [fn |-> "nernst", ion |-> "Cl", conc |-> Conc([Cl |-> [i |-> 5, o |-> 135]])],
     [fn |-> "nernst", ion |-> "K", conc |-> NoConc],
     GhkArgs(<<[o |-> 4,   i |-> 150, p |-> 100, z |-> 1],
               [o |-> 125, i |-> 15,  p |-> 5,   z |-> 1],
               [o |-> 110, i |-> 10,  p |-> 45,  z |-> -1]>>, "none"),
     [fn |-> "g_syn", t |-> 4000, spks |-> ExcSpksRef, g_max |-> GMaxDefault,
      tau |-> TauAMPA]}

\* the value the call c returns, or the exception it raises, in this kernel
Eval(c) ==
    CASE c.fn = "nernst_ind" -> nernst_ind(c.C_out, c.C_in, c.sign)
      [] c.fn = "nernst"     -> nernst(c.ion, c.conc)
      [] c.fn = "ghk"        -> ghk(c.C_outs, c.C_ins, c.ps, c.zs)
      [] c.fn = "g_syn"      -> g_syn(c.t, c.spks, c.g_max, c.tau)

\* a cell that calls one of the functions
KernelCall ==
    /\ Begin("part_000", "call")
    /\ \E c \in KernelCalls : \E r \in {Eval(c)} :
        /\ call' = c /\ ret' = r
        /\ seen' = Remember \cup {<<c, r, runs>>}
    /\ pc' = "returned" /\ err' = "none"
    /\ UNCHANGED <<membrane, I_e, delta, T, dt, num_iter, V_t, I_leak, dV, i,
                   injected, synaptic, reversal>>

\* a fresh kernel of neuron.ipynb after the cells b6e3ad97, 746fc66a and
\* 7e91fa06, or of part_000 after its cells down to 3c314fcb except the loop
InitKernel ==
    /\ nb \in {"neuron", "part_000"}
    /\ cell = "none" /\ pc = "idle" /\ err = "none"
    /\ IF nb = "neuron"
       THEN /\ V_rest = VRestRef * VScale /\ C_m = CmRef /\ R_m = RmRef
            /\ I_e = 0 /\ A = ARef
            /\ V_t = (VRestRef + DeltaV0) * VScale
            /\ I_leak = I_leakExpr((VRestRef + DeltaV0) * VScale, VRestRef * VScale,
                                   RmRef).val
            /\ dt = DtFirst
            /\ dV = dVLeak(I_leak, 0, DtFirst, CmRef).val
            /\ t = 0 /\ T = 0 /\ inh_spks = <<>> /\ exc_spks = <<>>
       ELSE /\ V_rest = 0 /\ C_m = 0 /\ R_m = 0 /\ I_e = 0 /\ A = 0
            /\ V_t = VKernel /\ I_leak = 0 /\ dt = 0 /\ dV = 0
            /\ t = TKernel /\ T = TKelvin
            /\ exc_spks = ExcSpksRef /\ inh_spks = SynBase.inh
    /\ delta = 0 /\ num_iter = 0 /\ start = 0 /\ end = 0 /\ I_i1 = 0 /\ I_i2 = 0
    /\ I_syn = 0 /\ i_e = 0 /\ v = <<>> /\ i = 0 /\ step_index = 0
    /\ call = NoCall /\ ret = Ok(0)
    /\ RTF = RTFExpr(RGas, TKelvin, Faraday)
    /\ valence = ValenceRef /\ concentrations = ConcentrationsRef
    /\ z = ValenceRef /\ Em_list = <<>> /\ driv_list = <<>>
    /\ runs = 0 /\ seen = {}

NextKernel ==
    \/ SynStart \/ SynTime \/ SynLeak \/ SynSyn \/ SynDV \/ SynUpdate
    \/ LeakStart \/ LeakLeak \/ LeakDV \/ LeakUpdate
    \/ InjStart \/ InjAppend \/ InjLeak \/ InjCurrent \/ InjDV \/ InjUpdate
    \/ RunParams \/ RunFirst \/ RunDV \/ RunConst \/ ConstUpdate \/ RunLeak \/ RunInj
    \/ RunSpikes \/ RunSyn \/ RunConstants \/ RunConcentrations \/ RunSweep
    \/ KernelCall

SpecKernel == InitKernel /\ [][NextKernel]_vars

-----------------------------------------------------------------------------
(* Properties *)

Halted      == pc \in {"done", "raised"}
ValidParams == C_m > 0 /\ R_m > 0 /\ A > 0 /\ dt > 0
\* the for loop has been reached: not so when a statement before it raised
LoopEntered == pc # "start" /\ ~(pc = "raised" /\ dt = 0 /\ cell # "leak")
Tolerance   == VScale \div 1000          \* 0.001 mV

\* the synaptic current and the external current of the running step, and
\* the change of voltage the formula dV = (-I_leak - I_syn + I_e/A) * dt/C_m
\* gives for them
StepSyn == IF cell = "syn" THEN I_synExpr(i * dt, V_t, inh_spks, exc_spks).val ELSE 0
StepIe  == IF cell = "inj" THEN i_e ELSE I_e
FormulaDV ==
    RDiv(MulDiv(-RDiv(V_t - V_rest, R_m) - StepSyn + RDiv(StepIe, A), dt, TScale), C_m)

\* C1: every step of every integration loop changes the voltage by
\* dV = (-I_leak - I_syn + I_e/A) * dt/C_m with I_leak = (V - V_rest)/R_m:
\* the external current is divided by the electrode area A.
C1_EveryLoopDividesByArea ==
    [][pc = "upd" /\ ValidParams => V_t' = V_t + FormulaDV]_vars

\* C2: when a step writes the voltage, the leak and the synaptic currents it
\* uses are those of the voltage held at the start of the step, and no other
\* statement of the step writes the voltage.
C2_CurrentsUsePreStepVoltage ==
    [][/\ pc = "upd" =>
            /\ I_leak = RDiv(V_t - V_rest, R_m)
            /\ cell = "syn" => I_syn = I_synExpr(t, V_t, inh_spks, exc_spks).val
            /\ V_t' = V_t + dV
       /\ pc \notin {"upd", "start"} => V_t' = V_t]_vars

C2_Witness ==
    /\ cell = "syn" /\ pc = "upd" /\ step_index > 0
    /\ I_syn # 0 /\ I_leak # 0 /\ dV # 0 /\ V_t # V_rest + delta

\* C3: the k-th step (k from 0) evaluates the sources at t = k * dt: t is
\* the index times the step at every statement of the body, so 0 in the first
\* step and (num_iter - 1) * dt in the last.
C3_TimeIsIndexTimesStep ==
    cell = "syn" =>
        /\ pc \in {"leak", "syn", "dV", "upd"} => t = i * dt /\ i = step_index
        /\ pc = "done" /\ num_iter > 0 => t = (num_iter - 1) * dt

C3_Witness ==
    cell = "syn" /\ pc = "syn" /\ i = 3 /\ dt = DtSynRef /\ t = 3 * DtSynRef

\* C4: every run ends; a run that ends without an exception has executed
\* exactly num_iter bodies, num_iter being the integer nearest to T/dt in cell
\* 8ec05a04; step_index starts at 0, grows by one per body, never exceeds
\* num_iter, and the loop is over exactly when step_index >= num_iter; with
\* num_iter = 0 no body runs and V_t keeps its first value.
C4_Counts ==
    /\ pc = "start" => step_index = 0
    /\ LoopEntered => (pc = "done" <=> step_index >= num_iter)
    /\ LoopEntered /\ num_iter >= 0 => step_index <= num_iter
    /\ pc = "done" /\ num_iter >= 0 => step_index = num_iter
    /\ pc = "done" /\ num_iter <= 0 => step_index = 0 /\ V_t = V_rest + delta
    /\ cell = "syn" /\ LoopEntered => 2 * Abs(num_iter * dt - T) <= Abs(dt)

C4_Step ==
    \/ step_index' = step_index
    \/ step_index' = step_index + 1 /\ pc = "upd"

C4_RunToCompletion == <>Halted /\ []C4_Counts /\ [][C4_Step]_vars

C4_Witness ==
    cell = "syn" /\ pc = "done" /\ err = "none" /\ T = 75 /\ dt = DtSynRef
    /\ num_iter = 8 /\ step_index = 8

\* C5: the recorded voltages _v are in step order, one per executed body:
\* entry k is the voltage at the start of step k, entry 0 the first voltage,
\* and a finished run has recorded num_iter of them.
C5_Recorded ==
    cell = "inj" =>
        /\ pc = "append" => Len(v) = step_index /\ i = step_index
        /\ pc \in {"leak", "ie", "dV", "upd"} =>
                Len(v) = step_index + 1 /\ v[Len(v)] = V_t
        /\ pc = "done" /\ num_iter >= 0 => Len(v) = num_iter
        /\ Len(v) > 0 => v[1] = V_rest + delta

C5_Grows == Len(v') >= Len(v) /\ \A k \in 1..Len(v) : v'[k] = v[k]

C5_TraceOnePerStep == []C5_Recorded /\ [][C5_Grows]_vars

C5_Witness ==
    /\ cell = "inj" /\ pc = "done" /\ num_iter = MaxIter /\ Len(v) = MaxIter
    /\ v[1] = V_rest /\ v[MaxIter] # V_rest

\* C6: with C_m <= 0, R_m <= 0, A <= 0 or dt <= 0 no step is executed.
C6_InvalidParametersRunNoStep == ~ValidParams => step_index = 0

\* C7: when a synaptic source raises while a step is computed, the exception
\* leaves the cell, nothing runs after it, and V_t, the step count and the
\* recorded voltages are those of the steps before: the failed step writes
\* nothing.
SourceFails ==
    cell = "syn" /\ pc = "syn" /\ I_synExpr(t, V_t, inh_spks, exc_spks).err # "none"

C7_FailedStep ==
    /\ SourceFails =>
        /\ pc' = "raised" /\ err' = I_synExpr(t, V_t, inh_spks, exc_spks).err
        /\ V_t' = V_t /\ step_index' = step_index /\ v' = v
    /\ pc = "raised" => FALSE

LeakReference ==
    /\ cell = "leak" /\ num_iter = NumIterRef /\ dt = DtLeakRef /\ I_e = 0
    /\ V_rest = VRestRef * VScale /\ R_m = RmRef /\ C_m = CmRef
    /\ delta = DeltaV0 * VScale

C9_FutureSpikeContributesZero ==
    pc = "returned" /\ call.fn = "g_syn" /\ Len(call.spks) = 1
        /\ call.t < call.spks[1] /\ call.tau > 0
    => ret = Ok(0)

\* C10: at the spike instant the gate is open and the decay factor is 1:
\* g_syn(t_s, [t_s], g_max, tau) is g_max, for tau > 0.
C10_PeakAtSpikeInstant ==
    pc = "returned" /\ call.fn = "g_syn" /\ Len(call.spks) = 1
        /\ call.t = call.spks[1] /\ call.tau > 0
    => ret = Ok(call.g_max * PScale)

C10_Witness ==
    /\ pc = "returned" /\ call.fn = "g_syn" /\ call.spks = <<2200>>
    /\ call.t = 2200 /\ call.tau = TauAMPA /\ call.g_max = GMaxDefault
    /\ ret = Ok(GMaxDefault * PScale)

\* C11: an empty spike list gives the conductance 0: g_syn(t, [], g_max, tau)
\* is 0 for every t, g_max and tau > 0.
C11_NoSpikesNoConductance ==
    pc = "returned" /\ call.fn = "g_syn" /\ call.spks = <<>> /\ call.tau > 0
    => ret = Ok(0)

C11_Witness ==
    /\ pc = "returned" /\ call.fn = "g_syn" /\ call.spks = <<>>
    /\ call.t = 4000 /\ call.tau = TauAMPA /\ call.g_max = GMaxDefault
    /\ ret = Ok(0)

\* the calls g_syn(t2, [t_s], g_max, tau) later than the returned call
\* g_syn(t1, [t_s], g_max, tau), t1 >= t_s and tau > 0, with their results
LaterCalls ==
    IF pc = "returned" /\ call.fn = "g_syn" /\ Len(call.spks) = 1
       /\ call.t >= call.spks[1] /\ call.tau > 0
    THEN {g_syn(c.t, c.spks, c.g_max, c.tau) :
            c \in {d \in GsynCalls : /\ d.t > call.t /\ d.spks = call.spks
                                     /\ d.g_max = call.g_max /\ d.tau = call.tau}}
    ELSE {}

Occurrences(q, x) == Cardinality({k \in 1..Len(q) : q[k] = x})

\* the spike lists with the spikes of q in any order
Reorderings(q) ==
    {p \in SeqsUpTo(CallTimes, MaxSpikes) :
        Len(p) = Len(q) /\ \A x \in CallTimes : Occurrences(p, x) = Occurrences(q, x)}

\* the returned call's list cut in two at k: the results of g_syn for the
\* two parts
PartsAt(k) ==
    <<g_syn(call.t, SubSeq(call.spks, 1, k), call.g_max, call.tau),
      g_syn(call.t, SubSeq(call.spks, k + 1, Len(call.spks)), call.g_max, call.tau)>>

\* order does not matter and the result of a concatenation is the sum of the
\* results of its parts (so a spike time given twice counts twice)
OrderInsensitiveAdditive ==
    /\ \A p \in Reorderings(call.spks) :
            g_syn(call.t, p, call.g_max, call.tau) = ret
    /\ \A k \in 0..Len(call.spks) : \A ab \in {PartsAt(k)} :
            /\ ret.err = "none" /\ ab[1].err = "none" /\ ab[2].err = "none"
            /\ ret.val = ab[1].val + ab[2].val

\* C13: g_syn is order-insensitive and additive over spikes: every
\* permutation of the spike list gives the same result, and the result for a
\* concatenation of two lists is the sum of the results for each (a spike
\* time that occurs n times contributes n times), for every spike list.
C13_OrderInsensitiveAdditive ==
    pc = "returned" /\ call.fn = "g_syn" /\ call.tau > 0 => OrderInsensitiveAdditive

\* the same for the calls that return a value: the lists without a spike
\* so far ahead of t that its power overflows
AdditiveWhereDefined ==
    pc = "returned" /\ call.fn = "g_syn" /\ call.tau > 0 /\ ret.err = "none"
    => OrderInsensitiveAdditive

\* C14: g_syn called with tau <= 0 fails with DomainError and returns no
\* conductance, whatever the spike list.
C14_InvalidTauRejected ==
    pc = "returned" /\ call.fn = "g_syn" /\ call.tau <= 0
    => ret.err = "DomainError"

\* the current 1e-3 * g * (V - E) of a conductance result g, or g's exception
CurrentOf(g, V, E) ==
    IF g.err # "none" THEN g
    ELSE Ok(MulDiv(RDiv(g.val, MilliDen), V - E * VScale, VScale))

\* C15: a synaptic current is unit_scale * g_syn(t, spks, g_max, tau) *
\* (V - E) with unit_scale = 1e-3, and the excitatory and the inhibitory
\* preset return the same result for the same arguments.
C15_PresetsAreOneComputation ==
    pc = "returned" /\ call.fn \in {"I_AMPA", "I_GABA"} =>
        /\ \A g \in {g_syn(call.t, call.spks, call.g_max, call.tau)} :
                ret = CurrentOf(g, call.V, call.E)
        /\ ret = I_AMPA(call.t, call.V, call.spks, call.g_max, call.tau, call.E)
        /\ ret = I_GABA(call.t, call.V, call.spks, call.g_max, call.tau, call.E)

C15_Witness ==
    /\ pc = "returned" /\ call.fn = "I_GABA" /\ call.t = 2200 /\ call.V = VKernel
    /\ call.spks = <<190, 2200>> /\ call.g_max = GMaxDefault
    /\ call.tau = TauGABA /\ call.E = EGABA
    /\ ret.err = "none" /\ ret.val > 0
    /\ ret = I_AMPA(call.t, call.V, call.spks, call.g_max, call.tau, call.E)

\* the returned call is a call of ghk with four lists of one length
GhkOfIons ==
    /\ pc = "returned" /\ call.fn = "ghk"
    /\ Len(call.C_outs) = Len(call.zs) /\ Len(call.C_ins) = Len(call.zs)
    /\ Len(call.ps) = Len(call.zs)

RECURSIVE NumeratorTo(_)
\* p * C_out of the cations plus p * C_in of the anions among the first k
\* ions of the call
NumeratorTo(k) ==
    IF k = 0 THEN 0
    ELSE NumeratorTo(k - 1)
         + call.ps[k] * (IF call.zs[k] > 0 THEN call.C_outs[k] ELSE call.C_ins[k])

RECURSIVE DenominatorTo(_)
\* p * C_in of the cations plus p * C_out of the anions among the first k
DenominatorTo(k) ==
    IF k = 0 THEN 0
    ELSE DenominatorTo(k - 1)
         + call.ps[k] * (IF call.zs[k] > 0 THEN call.C_ins[k] ELSE call.C_outs[k])

\* C17: ghk sums p * C_out over the cations and p * C_in over the anions
\* into the numerator, p * C_in over the cations and p * C_out over the
\* anions into the denominator, each ion with its own concentrations,
\* permeability and valence, and returns RTF * ln(numerator/denominator) *
\* 1000.
C17_PartitionByValenceSign ==
    GhkOfIons /\ ret.err = "none" /\ ~IsNonFinite(ret) =>
        \A n \in {NumeratorTo(Len(call.zs))} : \A d \in {DenominatorTo(Len(call.zs))} :
            /\ n > 0 /\ d > 0
            /\ ret.val = MulDiv(RTF, Ln(n, d), (RTFScale \div VScale) * 1000)

\* the docstring's call: round(ghk([4,125,110], [150,15,10], [pK, pNa, pCl],
\* [1,1,-1]), 2) is -69.73
C17_Witness ==
    /\ GhkOfIons /\ call.C_outs = <<4, 125, 110>> /\ call.C_ins = <<150, 15, 10>>
    /\ call.ps = <<100, 5, 45>> /\ call.zs = <<1, 1, -1>>
    /\ ret.err = "none" /\ ~IsNonFinite(ret)
    /\ ret.val > -69735000 /\ ret.val < -69725000

\* C18: ghk returns a potential only for four lists of one length N >= 1: a
\* call with lists of different lengths, or with empty lists, returns none.
C18_EqualLengthsRequired ==
    pc = "returned" /\ call.fn = "ghk" /\ (~GhkOfIons \/ Len(call.zs) = 0)
    => ret.err # "none"

\* C19: ghk fails whenever the accumulated numerator or denominator is <= 0;
\* it returns no value computed from the logarithm of a non-positive or
\* undefined ratio.
C19_NonPositiveRatioRejected ==
    /\ GhkOfIons /\ (\A k \in 1..Len(call.zs) : Abs(call.zs[k]) = 1)
    /\ (NumeratorTo(Len(call.zs)) <= 0 \/ DenominatorTo(Len(call.zs)) <= 0)
    => ret.err # "none"

\* C20: nernst_ind fails when the outside concentration is <= 0, the inside
\* concentration is <= 0 or the valence is 0, and returns
\* (RTF / valence) * ln(C_out / C_in) * 1000 otherwise.
C20_NernstDomainChecked ==
    pc = "returned" /\ call.fn = "nernst_ind" =>
        IF call.C_out <= 0 \/ call.C_in <= 0 \/ call.sign = 0
        THEN ret.err # "none"
        ELSE ret = Ok(MulDiv(RDiv(RTF, call.sign), Ln(call.C_out, call.C_in),
                             (RTFScale \div VScale) * 1000))

\* the dict a returned call of nernst read the concentrations from
TableOf(c) == IF c.conc.given THEN c.conc.table ELSE concentrations

\* C21: for an ion present in the supplied table, nernst returns the Nernst
\* potential of the ion's outside concentration, inside concentration and
\* valence in that table; no value comes from a global store.
C21_OnlyTheSuppliedTable ==
    /\ pc = "returned" /\ call.fn = "nernst" /\ call.conc.given
    /\ call.ion \in DOMAIN call.conc.table
    /\ "z" \in DOMAIN call.conc.table[call.ion]
    => ret = nernst_ind(call.conc.table[call.ion].o, call.conc.table[call.ion].i,
                        call.conc.table[call.ion].z)

\* C22: looking up an ion that the table does not hold fails (KeyError, the
\* spec's UnknownIonError); no potential and no default ion is returned.
C22_UnknownIonFails ==
    pc = "returned" /\ call.fn = "nernst" /\ call.ion \notin DOMAIN TableOf(call)
    => ret = Raise("KeyError")

C22_Witness ==
    /\ pc = "returned" /\ call.fn = "nernst" /\ call.conc.given
    /\ call.ion = "K" /\ DOMAIN call.conc.table = {"Cl"}
    /\ ret.err = "KeyError"

\* C23: nernst, ghk and g_syn are functions of their arguments: two calls
\* with the same arguments return the same result, whatever cells (the
\* simulation loop that assigns T, the constants, the sweep that rebinds z
\* and valence) ran in between.
C23_CallsAreDeterministic ==
    \A p \in seen : \A q \in seen :
        p[1] = q[1] /\ "fn" \in DOMAIN p[1] => p[2] = q[2]

C23_Witness ==
    /\ cell = "call" /\ pc = "returned" /\ call.fn = "ghk" /\ T # TKelvin
    /\ \E p \in seen : p[1] = call /\ p[3] < runs - 2 /\ p[2] = ret
    /\ ret.err = "none"

\* C24: runs share no mutable state: two runs of a loop cell with the same
\* parameters leave the same voltage and trace, whatever ran before them.
C24_RunsShareNoState ==
    pc = "done" /\ cell \in LoopCells =>
        \A p \in seen : p[1] = RunKey => p[2] = RunResult

\* C25: the synaptic current of every step is computed from the run's two
\* spike lists, and no statement of the run changes them.
C25_Used ==
    cell = "syn" /\ pc \in {"dV", "upd"} =>
        I_syn = I_synExpr(i * dt, V_t, inh_spks, exc_spks).val

C25_Kept == inh_spks' = inh_spks /\ exc_spks' = exc_spks

C26_Step ==
    pc # "start" =>
        /\ UNCHANGED <<V_rest, C_m, R_m, I_e, A, dt, inh_spks, exc_spks>>
        /\ pc # "upd" => V_t' = V_t /\ step_index' = step_index
        /\ pc = "upd" => V_t' = V_t + dV /\ step_index' = step_index + 1

C26_StepWritesOnlyTheVoltage == [][C26_Step]_vars

C26_Witness ==
    /\ cell = "inj" /\ pc = "done" /\ step_index = MaxIter
    /\ I_e = IeInjected /\ Len(v) = MaxIter /\ V_t # V_rest

\* C27: in a leak run with I_e = 0 and 0 < dt <= R_m*C_m, a step never takes
\* V_t to the other side of V_rest nor farther from it, and leaves a V_t
\* equal to V_rest where it is.
LeakOnly ==
    /\ cell = "leak" /\ I_e = 0 /\ R_m > 0 /\ C_m > 0
    /\ 0 < dt /\ dt <= R_m * C_m * TScale

C27_LeakNeverOvershoots ==
    LeakOnly /\ pc = "upd" =>
        /\ Sgn(V_t + dV - V_rest) \in {0, Sgn(V_t - V_rest)}
        /\ Abs(V_t + dV - V_rest) <= Abs(V_t - V_rest)
        /\ V_t = V_rest => dV = 0

=============================================================================
